---- MODULE Spec2Model ----
(***************************************************************************)
(* The diff/patch engine of the Local Code Agent VS Code extension:        *)
(*   webview-ui/src/ui/diff.ts   parseUnifiedDiff, buildUnifiedDiff        *)
(*   webview-ui/src/ui/App.tsx   the review session (approveAll,           *)
(*                               rejectAll, toggleLine, approveSelected)   *)
(*   src/patchApply.ts           applyPatch, gitApply, applyUnifiedDiff,   *)
(*                               parseDiff, parseHunkHeader, applyHunks    *)
(* A text is a sequence of characters (one-character strings), a line is a *)
(* text without a line feed.  Numbers in hunk headers are decimal digits   *)
(* in the text and are parsed and printed as the code does.                *)
(***************************************************************************)
EXTENDS Integers, Sequences, FiniteSets, TLC

(***************************************************************************)
(* Bounds of the inputs.                                                   *)
(***************************************************************************)
MaxFiles == 2
MaxHunks == 2
MaxBody == 3
MaxLines == 4
HunkGap == 3
MaxStart == 2
MaxApplyBody == 2
MaxApplyLines == 3
MaxParseLines == 5

(***************************************************************************)
(* Characters and string primitives of JavaScript used by the code.        *)
(***************************************************************************)
LF == "\n"
CR == "\r"
SP == " "
DigitChars == <<"0", "1", "2", "3", "4", "5", "6", "7", "8", "9">>
IsDigit(c) == \E i \in 1..10 : DigitChars[i] = c
IsSpaceChar(c) == c \in {SP, CR, LF, "\t"}

Min(S) == CHOOSE x \in S : \A y \in S : x <= y
Max(S) == CHOOSE x \in S : \A y \in S : x >= y

\* String.prototype.startsWith
StartsWith(s, p) == Len(s) >= Len(p) /\ SubSeq(s, 1, Len(p)) = p

\* String.prototype.slice(n) for n >= 0
SliceFrom(s, n) == SubSeq(s, n + 1, Len(s))

\* String.prototype.trim
Trim(s) ==
  LET keep == {i \in 1..Len(s) : ~IsSpaceChar(s[i])}
  IN IF keep = {} THEN <<>> ELSE SubSeq(s, Min(keep), Max(keep))

\* String.prototype.split("\n"): never empty, "" gives [""]
RECURSIVE SplitLF(_)
SplitLF(t) ==
  LET at == {i \in 1..Len(t) : t[i] = LF}
  IN IF at = {} THEN <<t>>
     ELSE <<SubSeq(t, 1, Min(at) - 1)>> \o SplitLF(SubSeq(t, Min(at) + 1, Len(t)))

\* Array.prototype.join("\n"): [] gives ""
RECURSIVE JoinLF(_)
JoinLF(ls) ==
  IF ls = <<>> THEN <<>>
  ELSE IF Len(ls) = 1 THEN ls[1]
  ELSE ls[1] \o <<LF>> \o JoinLF(Tail(ls))

\* parseInt(digits, 10) on a non-empty run of decimal digits
RECURSIVE ParseInt(_)
ParseInt(ds) ==
  IF ds = <<>> THEN 0
  ELSE 10 * ParseInt(SubSeq(ds, 1, Len(ds) - 1))
       + ((CHOOSE i \in 1..10 : DigitChars[i] = ds[Len(ds)]) - 1)

\* `${n}` for a non-negative integer
RECURSIVE NumToString(_)
NumToString(n) ==
  IF n < 10 THEN <<DigitChars[n + 1]>>
  ELSE NumToString(n \div 10) \o <<DigitChars[(n % 10) + 1]>>

\* Concatenation of a sequence of sequences
RECURSIVE Flatten(_)
Flatten(ss) == IF ss = <<>> THEN <<>> ELSE ss[1] \o Flatten(Tail(ss))

RECURSIVE SumSeq(_)
SumSeq(ns) == IF ns = <<>> THEN 0 ELSE ns[1] + SumSeq(Tail(ns))

(***************************************************************************)
(* Fixed strings of the unified-diff grammar.                              *)
(***************************************************************************)
S_DiffGitSp == <<"d", "i", "f", "f", " ", "-", "-", "g", "i", "t", " ">>
S_Index == <<"i", "n", "d", "e", "x", " ">>
S_Minus3 == <<"-", "-", "-", " ">>
S_Plus3 == <<"+", "+", "+", " ">>
S_Plus3B == <<"+", "+", "+", " ", "b", "/">>
S_NewFile == <<"n", "e", "w", " ", "f", "i", "l", "e">>
S_DeletedFile == <<"d", "e", "l", "e", "t", "e", "d", " ", "f", "i", "l", "e">>

(***************************************************************************)
(* diff.ts: HUNK_RE, anchored at the start of the line: "@@ -", digits     *)
(* (group 1), an optional comma, optional digits (group 2), " +", digits   *)
(* (group 3), an optional comma, optional digits (group 4), " @@".         *)
(* The greedy match is the only one: giving back digits of a run, or   *)
(* not taking a comma that is there, ends at the same place or fails.      *)
(***************************************************************************)
\* index of the last character of the run of digits that starts at i (i - 1 if none)
DigitEnd(s, i) ==
  LET stop == {j \in i..Len(s) : ~IsDigit(s[j])}
  IN IF stop = {} THEN Len(s) ELSE Min(stop) - 1

HasAt(s, i, p) == i >= 1 /\ i + Len(p) - 1 <= Len(s) /\ SubSeq(s, i, i + Len(p) - 1) = p

NoMatch == [ok |-> FALSE, g1 |-> <<>>, g2 |-> <<>>, g3 |-> <<>>, g4 |-> <<>>]

HUNK_RE(line) ==
  IF ~HasAt(line, 1, <<"@", "@", " ", "-">>) THEN NoMatch
  ELSE
    LET e1 == DigitEnd(line, 5)
        c1 == IF HasAt(line, e1 + 1, <<",">>) THEN e1 + 2 ELSE e1 + 1
        e2 == DigitEnd(line, c1)
        b3 == e2 + 3
        e3 == DigitEnd(line, b3)
        c3 == IF HasAt(line, e3 + 1, <<",">>) THEN e3 + 2 ELSE e3 + 1
        e4 == DigitEnd(line, c3)
    IN IF e1 < 5 \/ ~HasAt(line, e2 + 1, <<" ", "+">>) \/ e3 < b3
          \/ ~HasAt(line, e4 + 1, <<" ", "@", "@">>)
       THEN NoMatch
       ELSE [ok |-> TRUE,
             g1 |-> SubSeq(line, 5, e1), g2 |-> SubSeq(line, c1, e2),
             g3 |-> SubSeq(line, b3, e3), g4 |-> SubSeq(line, c3, e4)]

(***************************************************************************)
(* diff.ts: the review document.  A field the code leaves undefined is     *)
(* Undef (line numbers) or "undefined" (accepted).                         *)
(***************************************************************************)
Undef == -1

DiffLine(type, text, oldLine, newLine, accepted) ==
  [type |-> type, text |-> text, oldLine |-> oldLine, newLine |-> newLine,
   accepted |-> accepted]

DiffHunk(header, oldStart, oldLines, newStart, newLines, lines) ==
  [header |-> header, oldStart |-> oldStart, oldLines |-> oldLines,
   newStart |-> newStart, newLines |-> newLines, lines |-> lines]

\* faulty variant: a file is opened with an empty header
DiffFile_NoHeader(header, path, hunks) == [header |-> <<>>, path |-> path, hunks |-> hunks]

DiffFile(header, path, hunks) == [header |-> header, path |-> path, hunks |-> hunks]

\* faulty variant: an Add line takes the new line number after the cursor
PushLine_AddShifted(file, l) ==
  LET n == Len(file.hunks)
      moved == IF l.type = "add" THEN [l EXCEPT !.newLine = @ + 1] ELSE l
  IN [file EXCEPT !.hunks[n].lines = Append(@, moved)]

\* faulty variant: a line is stored without its acceptance flag
PushLine_Unflagged(file, l) ==
  LET n == Len(file.hunks)
  IN [file EXCEPT !.hunks[n].lines = Append(@, [l EXCEPT !.accepted = "undefined"])]

\* `current.hunks[last].lines.push(l)`: currentHunk is the last hunk of current
PushLine(file, l) ==
  LET n == Len(file.hunks)
  IN [file EXCEPT !.hunks[n].lines = Append(@, l)]

IsFileHeaderLine(line) ==
  \/ StartsWith(line, S_Index)
  \/ StartsWith(line, S_Minus3)
  \/ StartsWith(line, S_Plus3)
  \/ StartsWith(line, S_NewFile)
  \/ StartsWith(line, S_DeletedFile)

\* the state of the loop of parseUnifiedDiff before the first line
ParseStart ==
  [files |-> <<>>, open |-> FALSE, current |-> DiffFile(<<>>, <<>>, <<>>),
   inHunk |-> FALSE, oldLine |-> 0, newLine |-> 0]

\* one iteration of `for (const line of lines)`
ParseLine(st, line) ==
  IF StartsWith(line, S_DiffGitSp) THEN
    [st EXCEPT !.files = IF st.open THEN Append(@, st.current) ELSE @,
               !.open = TRUE,
               !.current = DiffFile(<<line>>, <<>>, <<>>),
               !.inHunk = FALSE]
  ELSE IF ~st.open THEN st
  ELSE IF IsFileHeaderLine(line) THEN
    [st EXCEPT !.current.header = Append(@, line),
               !.current.path = IF StartsWith(line, S_Plus3B)
                                THEN Trim(SliceFrom(line, 6)) ELSE @]
  ELSE
    LET m == HUNK_RE(line) IN
    IF m.ok THEN
      LET oldStart == ParseInt(m.g1)
          oldLines == IF m.g2 # <<>> THEN ParseInt(m.g2) ELSE 1
          newStart == ParseInt(m.g3)
          newLines == IF m.g4 # <<>> THEN ParseInt(m.g4) ELSE 1
      IN [st EXCEPT !.oldLine = oldStart,
                    !.newLine = newStart,
                    !.inHunk = TRUE,
                    !.current.hunks =
                       Append(@, DiffHunk(line, oldStart, oldLines, newStart, newLines, <<>>))]
    ELSE IF ~st.inHunk THEN [st EXCEPT !.current.header = Append(@, line)]
    ELSE IF StartsWith(line, <<"+">>) THEN
      [st EXCEPT !.current = PushLine(@, DiffLine("add", line, Undef, st.newLine, "true")),
                 !.newLine = @ + 1]
    ELSE IF StartsWith(line, <<"-">>) THEN
      [st EXCEPT !.current = PushLine(@, DiffLine("del", line, st.oldLine, Undef, "true")),
                 !.oldLine = @ + 1]
    ELSE IF StartsWith(line, <<SP>>) THEN
      [st EXCEPT !.current = PushLine(@, DiffLine("ctx", line, st.oldLine, st.newLine, "undefined")),
                 !.oldLine = @ + 1,
                 !.newLine = @ + 1]
    ELSE
      [st EXCEPT !.current = PushLine(@, DiffLine("meta", line, Undef, Undef, "undefined"))]

RECURSIVE ParseLoop(_, _, _)
ParseLoop(st, lines, i) ==
  IF i > Len(lines) THEN st ELSE ParseLoop(ParseLine(st, lines[i]), lines, i + 1)

parseUnifiedDiff(diff) ==
  LET st == ParseLoop(ParseStart, SplitLF(diff), 1)
  IN IF st.open THEN Append(st.files, st.current) ELSE st.files

(***************************************************************************)
(* diff.ts: buildUnifiedDiff                                               *)
(***************************************************************************)
IsChange(l) == l.type = "add" \/ l.type = "del"

\* faulty variant: the accepted flag is ignored
KeepLine_IgnoreFlag(l) == TRUE

\* the predicate of `h.lines.filter(...)`
KeepLine(l) == IF IsChange(l) THEN l.accepted # "false" ELSE TRUE

CountLines(ls, types) == Cardinality({i \in 1..Len(ls) : ls[i].type \in types})

BuildHeader(oldStart, oldCount, newStart, newCount) ==
  <<"@", "@", " ", "-">> \o NumToString(oldStart) \o <<",">> \o NumToString(oldCount)
  \o <<" ", "+">> \o NumToString(newStart) \o <<",">> \o NumToString(newCount)
  \o <<" ", "@", "@">>

\* faulty variant: a hunk without a kept change is emitted all the same
BuildHunk_KeepEmpty(h) ==
  LET kept == SelectSeq(h.lines, KeepLine)
  IN [keep |-> TRUE,
      header |-> BuildHeader(h.oldStart, CountLines(kept, {"ctx", "del"}),
                             h.newStart, CountLines(kept, {"ctx", "add"})),
      lines |-> kept]

\* faulty variant: the header keeps the counts the original hunk declared
BuildHunk_DeclaredCounts(h) ==
  LET kept == SelectSeq(h.lines, KeepLine)
  IN IF ~(\E i \in 1..Len(kept) : IsChange(kept[i]))
     THEN [keep |-> FALSE, header |-> <<>>, lines |-> <<>>]
     ELSE [keep |-> TRUE,
           header |-> BuildHeader(h.oldStart, h.oldLines, h.newStart, h.newLines),
           lines |-> kept]

\* the callback of `file.hunks.map(...)`; null is [keep |-> FALSE]
BuildHunk(h) ==
  LET kept == SelectSeq(h.lines, KeepLine)
      hasChanges == \E i \in 1..Len(kept) : IsChange(kept[i])
      oldCount == CountLines(kept, {"ctx", "del"})
      newCount == CountLines(kept, {"ctx", "add"})
      header == BuildHeader(h.oldStart, oldCount, h.newStart, newCount)
  IN IF ~hasChanges THEN [keep |-> FALSE, header |-> <<>>, lines |-> <<>>]
     ELSE [keep |-> TRUE, header |-> header, lines |-> kept]

IsBuilt(b) == b.keep

EmitHunks(hunks) ==
  Flatten([k \in 1..Len(hunks) |->
             <<hunks[k].header>>
             \o [j \in 1..Len(hunks[k].lines) |-> hunks[k].lines[j].text]])

\* faulty variant: the header of a file is emitted although no hunk of it is left
BuildFile_AlwaysHeader(file) ==
  file.header
  \o EmitHunks(SelectSeq([k \in 1..Len(file.hunks) |-> BuildHunk(file.hunks[k])], IsBuilt))

\* the lines one file pushes to `out`
BuildFile(file) ==
  LET hunks == SelectSeq([k \in 1..Len(file.hunks) |-> BuildHunk(file.hunks[k])], IsBuilt)
  IN IF Len(hunks) = 0 THEN <<>>
     ELSE file.header \o EmitHunks(hunks)

\* faulty variant: the files are emitted last first
buildUnifiedDiff_Reversed(fs) ==
  JoinLF(Flatten([k \in 1..Len(fs) |-> BuildFile(fs[Len(fs) + 1 - k])]))

buildUnifiedDiff(fs) == JoinLF(Flatten([k \in 1..Len(fs) |-> BuildFile(fs[k])]))

(***************************************************************************)
(* Input: unified diffs as a diff tool writes them.  A source is a number  *)
(* of files and a list of hunks in file order; the k-th hunk of a file     *)
(* starts at old line 1 + (k - 1) * HunkGap, its header carries the counts *)
(* of its body and the new start that the earlier hunks of the file imply. *)
(* A hunk may open with "--- x", the deletion of the line "-- x".  A diff   *)
(* has at most MaxLines body lines in all.                                 *)
(***************************************************************************)
BodyVocab == { <<"+", "a">>, <<"-", "b">>, <<SP, "c">> }
DeletedComment == <<"-", "-", "-", SP, "x">>

Bodies ==
  UNION { { b \in [1..n -> BodyVocab \cup {DeletedComment}] :
              \A i \in 2..n : b[i] \in BodyVocab } : n \in 1..MaxBody }

PathOf(i) == <<<<"f">>, <<"g">>, <<"h">>, <<"k">>>>[i]

Sources ==
  UNION { { [nf |-> nf, hs |-> hs] :
              hs \in { h \in [1..k -> [file : 1..nf, body : Bodies]] :
                         /\ \A i \in 1..(k - 1) : h[i].file <= h[i + 1].file
                         /\ SumSeq([i \in 1..k |-> Len(h[i].body)]) <= MaxLines } } :
          nf \in 1..MaxFiles, k \in 0..MaxHunks }

OldCountOf(body) ==
  Cardinality({i \in 1..Len(body) : body[i][1] \in {SP, "-"}})
NewCountOf(body) ==
  Cardinality({i \in 1..Len(body) : body[i][1] \in {SP, "+"}})

HunkHeaderText(oldStart, oldCount, newStart, newCount) ==
  <<"@", "@", " ", "-">> \o NumToString(oldStart) \o <<",">> \o NumToString(oldCount)
  \o <<" ", "+">> \o NumToString(newStart) \o <<",">> \o NumToString(newCount)
  \o <<" ", "@", "@">>

\* the bodies of the hunks of file i of a source
BodiesOf(src, i) ==
  LET idx == {j \in 1..Len(src.hs) : src.hs[j].file = i}
      first == IF idx = {} THEN 1 ELSE Min(idx)
  IN [k \in 1..Cardinality(idx) |-> src.hs[first + k - 1].body]

SrcOldStart(k) == 1 + (k - 1) * HunkGap

RECURSIVE SrcDelta(_, _)
SrcDelta(bodies, k) ==
  IF k = 0 THEN 0
  ELSE SrcDelta(bodies, k - 1) + NewCountOf(bodies[k]) - OldCountOf(bodies[k])

SrcNewStart(bodies, k) == SrcOldStart(k) + SrcDelta(bodies, k - 1)

RenderHunk(bodies, k) ==
  <<HunkHeaderText(SrcOldStart(k), OldCountOf(bodies[k]),
                   SrcNewStart(bodies, k), NewCountOf(bodies[k]))>>
  \o bodies[k]

RenderFile(src, i) ==
  LET p == PathOf(i)
      bodies == BodiesOf(src, i)
  IN << S_DiffGitSp \o <<"a", "/">> \o p \o <<" ", "b", "/">> \o p,
        S_Minus3 \o <<"a", "/">> \o p,
        S_Plus3B \o p >>
     \o Flatten([k \in 1..Len(bodies) |-> RenderHunk(bodies, k)])

\* the text of a source; it ends with a line feed
Render(src) ==
  JoinLF(Flatten([i \in 1..src.nf |-> RenderFile(src, i)]) \o << <<>> >>)

(***************************************************************************)
(* patchApply.ts: parseDiff, parseHunkHeader, applyHunks                   *)
(***************************************************************************)
S_DiffGit == <<"d", "i", "f", "f", " ", "-", "-", "g", "i", "t">>
S_AtAt == <<"@", "@">>

\* String.prototype.split(/\r?\n/): a line feed and the carriage return before it
SplitCRLF(t) ==
  LET parts == SplitLF(t)
  IN [i \in 1..Len(parts) |->
        IF i < Len(parts) /\ Len(parts[i]) > 0 /\ parts[i][Len(parts[i])] = CR
        THEN SubSeq(parts[i], 1, Len(parts[i]) - 1)
        ELSE parts[i]]

\* Array.prototype.slice(b, e) with its negative and out-of-range indices
JsSlice(a, b, e) ==
  LET n == Len(a)
      from == IF b < 0 THEN (IF n + b < 0 THEN 0 ELSE n + b) ELSE (IF b > n THEN n ELSE b)
      to == IF e < 0 THEN (IF n + e < 0 THEN 0 ELSE n + e) ELSE (IF e > n THEN n ELSE e)
  IN IF from >= to THEN <<>> ELSE SubSeq(a, from + 1, to)

\* Array.prototype.slice(b)
JsSliceFrom(a, b) == JsSlice(a, b, Len(a))

Hunk(oldStart, oldLines, newStart, newLines, lines) ==
  [oldStart |-> oldStart, oldLines |-> oldLines, newStart |-> newStart,
   newLines |-> newLines, lines |-> lines]

\* the match of the (unanchored) header pattern at position p: "@@ -", digits, an
\* optional "," digits, " +", digits, an optional "," digits, " @@"
HeaderMatchAt(line, p) ==
  IF ~HasAt(line, p, <<"@", "@", " ", "-">>) THEN NoMatch
  ELSE
    LET b1 == p + 4
        e1 == DigitEnd(line, b1)
        has2 == HasAt(line, e1 + 1, <<",">>) /\ DigitEnd(line, e1 + 2) >= e1 + 2
        e2 == IF has2 THEN DigitEnd(line, e1 + 2) ELSE e1
        b3 == e2 + 3
        e3 == DigitEnd(line, b3)
        has4 == HasAt(line, e3 + 1, <<",">>) /\ DigitEnd(line, e3 + 2) >= e3 + 2
        e4 == IF has4 THEN DigitEnd(line, e3 + 2) ELSE e3
    IN IF e1 < b1 \/ ~HasAt(line, e2 + 1, <<" ", "+">>) \/ e3 < b3
          \/ ~HasAt(line, e4 + 1, <<" ", "@", "@">>)
       THEN NoMatch
       ELSE [ok |-> TRUE,
             g1 |-> SubSeq(line, b1, e1),
             g2 |-> IF has2 THEN SubSeq(line, e1 + 2, e2) ELSE <<>>,
             g3 |-> SubSeq(line, b3, e3),
             g4 |-> IF has4 THEN SubSeq(line, e3 + 2, e4) ELSE <<>>]

parseHunkHeader(line) ==
  LET at == {p \in 1..Len(line) : HeaderMatchAt(line, p).ok}
  IN IF at = {} THEN Hunk(0, 0, 0, 0, <<>>)
     ELSE LET m == HeaderMatchAt(line, Min(at))
          IN Hunk(ParseInt(m.g1),
                  ParseInt(IF m.g2 # <<>> THEN m.g2 ELSE <<"1">>),
                  ParseInt(m.g3),
                  ParseInt(IF m.g4 # <<>> THEN m.g4 ELSE <<"1">>),
                  <<>>)

\* the inner `while (j < lines.length && ...)`: the first "+++ b/" line of the
\* section that starts after line i, 0 if there is none
PathLine(lines, i) ==
  LET stop == {j \in (i + 1)..Len(lines) : StartsWith(lines[j], S_DiffGit)}
      last == IF stop = {} THEN Len(lines) ELSE Min(stop) - 1
      hits == {j \in (i + 1)..last : StartsWith(lines[j], S_Plus3B)}
  IN IF hits = {} THEN 0 ELSE Min(hits)

\* the end of the body of the hunk whose header is line i
HunkBodyEnd(lines, i) ==
  LET stop == {j \in (i + 1)..Len(lines) :
                 StartsWith(lines[j], S_AtAt) \/ StartsWith(lines[j], S_DiffGit)}
  IN IF stop = {} THEN Len(lines) ELSE Min(stop) - 1

\* the loop `while (i < lines.length)`; `current` is the last file of `files`
\* when hasCurrent, null otherwise
RECURSIVE ParseDiffLoop(_, _, _, _)
ParseDiffLoop(lines, i, fs, hasCurrent) ==
  IF i > Len(lines) THEN fs
  ELSE IF StartsWith(lines[i], S_DiffGit) THEN
    LET j == PathLine(lines, i)
    IN IF j = 0 THEN ParseDiffLoop(lines, i + 1, fs, FALSE)
       ELSE ParseDiffLoop(lines, i + 1,
              Append(fs, [path |-> Trim(SliceFrom(lines[j], 6)), hunks |-> <<>>]), TRUE)
  ELSE IF StartsWith(lines[i], S_AtAt) /\ hasCurrent THEN
    LET e == HunkBodyEnd(lines, i)
        hunk == [parseHunkHeader(lines[i]) EXCEPT !.lines = SubSeq(lines, i + 1, e)]
    IN ParseDiffLoop(lines, e + 1,
                     [fs EXCEPT ![Len(fs)].hunks = Append(@, hunk)], TRUE)
  ELSE ParseDiffLoop(lines, i + 1, fs, hasCurrent)

parseDiff(diffText) == ParseDiffLoop(SplitCRLF(diffText), 1, <<>>, FALSE)

IsAddOrCtx(l) == StartsWith(l, <<"+">>) \/ StartsWith(l, <<SP>>)

\* faulty variant: the marker character of a line is kept
NewLinesOf_KeepMarker(hunk) == SelectSeq(hunk.lines, IsAddOrCtx)

\* `newLines` of one hunk: l.slice(1) of its "+" and " " lines
NewLinesOf(hunk) ==
  LET sel == SelectSeq(hunk.lines, IsAddOrCtx)
  IN [i \in 1..Len(sel) |-> SliceFrom(sel[i], 1)]

\* faulty variant: the offset is not accumulated
ApplyHunk_NoOffset(st, hunk) ==
  LET at == hunk.oldStart - 1 + st.offset
      newLines == NewLinesOf(hunk)
      before == JsSlice(st.lines, 0, at)
      after == JsSliceFrom(st.lines, at + hunk.oldLines)
  IN [lines |-> before \o newLines \o after,
      offset |-> st.offset]

\* one iteration of `for (const hunk of hunks)` in applyHunks
ApplyHunk(st, hunk) ==
  LET at == hunk.oldStart - 1 + st.offset
      newLines == NewLinesOf(hunk)
      before == JsSlice(st.lines, 0, at)
      after == JsSliceFrom(st.lines, at + hunk.oldLines)
  IN [lines |-> before \o newLines \o after,
      offset |-> st.offset + Len(newLines) - hunk.oldLines]

\* the loop states of applyHunks: before the first hunk and after each hunk
RECURSIVE ApplyHunksStates(_, _, _)
ApplyHunksStates(st, hunks, k) ==
  IF k > Len(hunks) THEN <<st>>
  ELSE <<st>> \o ApplyHunksStates(ApplyHunk(st, hunks[k]), hunks, k + 1)

ApplyHunksRun(original, hunks) ==
  ApplyHunksStates([lines |-> SplitLF(original), offset |-> 0], hunks, 1)

applyHunks(original, hunks) ==
  LET run == ApplyHunksRun(original, hunks)
  IN JoinLF(run[Len(run)].lines)

(***************************************************************************)
(* The review session of the webview (App.tsx).                            *)
(*   src       the source the pending diff was rendered from (input)       *)
(*   diffText  state.pending.diff                                          *)
(*   files     the `files` state: the parsed document with its flags       *)
(*   objs      for each line of `files`, the object that holds it: the     *)
(*             handlers copy some lines and share or mutate the others     *)
(*   lastOp    the last handler that ran on the document                   *)
(*   pc        "review", then "sent" once approveSelected has posted       *)
(*   out       the diff posted with the approve action                     *)
(***************************************************************************)
VARIABLES src, diffText, files, objs, lastOp, pc, out

(***************************************************************************)
(* One call of applyPatch (patchApply.ts) and the working tree.            *)
(*   applyText        the diffText argument                                *)
(*   disk             the files under the workspace root                   *)
(*   useGitApply      the localCodeAgent.useGitApply setting               *)
(*   gitDir           whether <root>/.git exists                           *)
(*   apc              where the call is: "Idle" (no call), "NotStarted",   *)
(*                    "TryExternal" (awaiting the close event of git),     *)
(*                    "TryInMemory" (in the loop of applyUnifiedDiff),     *)
(*                    "Done" (the promise of applyPatch is resolved)       *)
(*   result           the value applyPatch resolved with                   *)
(*   queue, fileIdx   the files parseDiff returned and the next one        *)
(*   gitSpawned, gitClosed, gitExit, gitLaunchFailed, memEntered,          *)
(*   memWrites        history of the call: git was spawned, its close      *)
(*                    event came, with this exit code, its "error" event   *)
(*                    was emitted, applyUnifiedDiff was called, the number *)
(*                    of edits it applied                                  *)
(*   hunkRun          the loop states of the last run of applyHunks, and   *)
(*   hunkRunOf        the hunks it ran on                                  *)
(***************************************************************************)
VARIABLES applyText, disk, useGitApply, gitDir, apc, result, queue, fileIdx,
          gitSpawned, gitClosed, gitExit, gitLaunchFailed, memEntered, memWrites,
          hunkRun, hunkRunOf

(***************************************************************************)
(* The extension host (extension.ts, AgentViewProvider).                   *)
(*   pending      this.pending: null, or the pending patch with its diff   *)
(*   messages     this.messages, each message by its text                  *)
(*   epc          where the handler of an action is: "idle" (none runs),   *)
(*                "approveStream", "approveServer" (approve awaits the     *)
(*                answer of the server), "approveLocal" (approve awaits    *)
(*                applyPatch)                                              *)
(*   diffOverride the argument of the last call of approve: payload.diff   *)
(*                of the webview, or undefined (the command)               *)
(*   diffToApply  the local of approve: the diff it chose                  *)
(*   serverDiff   the unified_diff of the last approve request posted      *)
(*   lastExt      the way the last handler ended                           *)
(***************************************************************************)
VARIABLES pending, messages, epc, diffOverride, diffToApply, serverDiff, lastExt

reviewVars == <<src, diffText, files, objs, lastOp, pc, out>>
extVars == <<pending, messages, epc, diffOverride, diffToApply, serverDiff, lastExt>>
applyVars ==
  <<applyText, disk, useGitApply, gitDir, apc, result, queue, fileIdx,
    gitSpawned, gitClosed, gitExit, gitLaunchFailed, memEntered, memWrites,
    hunkRun, hunkRunOf>>
vars == <<reviewVars, applyVars, extVars>>

DiskPaths == {PathOf(i) : i \in 1..MaxFiles}
Absent == [exists |-> FALSE, content |-> <<>>]
Present(text) == [exists |-> TRUE, content |-> text]

\* the working tree before the call: file f has three lines, the others do not exist
InitialDisk ==
  [p \in DiskPaths |->
     IF p = PathOf(1) THEN Present(<<"p", LF, "q", LF, "r">>) ELSE Absent]

NoPatch == [has |-> FALSE, diff |-> <<>>]
PendingPatch(diff) == [has |-> TRUE, diff |-> diff]
Undefined == [given |-> FALSE, diff |-> <<>>]
Given(diff) == [given |-> TRUE, diff |-> diff]
NotSent == [sent |-> FALSE, diff |-> <<>>]
Sent(diff) == [sent |-> TRUE, diff |-> diff]

\* the provider with a pending patch and no handler running: propose has set
\* this.pending and pushed the summary of the patch
Proposed(diff) ==
  /\ pending = PendingPatch(diff)
  /\ messages = <<"Summary">>
  /\ epc = "idle"
  /\ diffOverride = Undefined
  /\ diffToApply = <<>>
  /\ serverDiff = NotSent
  /\ lastExt = "propose"

NoResult == [ok |-> FALSE, message |-> "none", path |-> <<>>]

NoCall ==
  /\ applyText = <<>>
  /\ disk = InitialDisk
  /\ useGitApply = TRUE
  /\ gitDir = FALSE
  /\ apc = "Idle"
  /\ result = NoResult
  /\ queue = <<>>
  /\ fileIdx = 1
  /\ gitSpawned = FALSE
  /\ gitClosed = FALSE
  /\ gitExit = 0
  /\ gitLaunchFailed = FALSE
  /\ memEntered = FALSE
  /\ memWrites = 0
  /\ hunkRun = <<>>
  /\ hunkRunOf = <<>>

\* the objects of a freshly parsed document: every push of the parser makes a new
\* object literal, named here <<0, f, h, l>> after its place
ParseObjs(fs) ==
  [f \in 1..Len(fs) |->
     [h \in 1..Len(fs[f].hunks) |->
        [l \in 1..Len(fs[f].hunks[h].lines) |-> <<0, f, h, l>>]]]

\* the `files` state after the effects of the first render: setFiles(diffFiles)
Init ==
  /\ src \in Sources
  /\ diffText = Render(src)
  /\ files = parseUnifiedDiff(diffText)
  /\ objs = ParseObjs(files)
  /\ lastOp = "parse"
  /\ pc = "review"
  /\ out = <<>>
  /\ NoCall
  /\ Proposed(diffText)

\* faulty variant: one new object is made and used for every Add and Delete line
SetAllObjs_OneObject(fs, os) ==
  [f \in 1..Len(fs) |->
     [h \in 1..Len(fs[f].hunks) |->
        [l \in 1..Len(fs[f].hunks[h].lines) |->
           IF IsChange(fs[f].hunks[h].lines[l]) THEN <<1, 0, 0, 0>> ELSE os[f][h][l]]]]

\* the objects after approveAll / rejectAll: `{ ...l, accepted }` is a new object
\* for each Add and Delete line (the earlier copies are unreachable, so the new
\* ones are named <<1, f, h, l>>), `: l` keeps the object of the other lines
SetAllObjs(fs, os) ==
  [f \in 1..Len(fs) |->
     [h \in 1..Len(fs[f].hunks) |->
        [l \in 1..Len(fs[f].hunks[h].lines) |->
           IF IsChange(fs[f].hunks[h].lines[l]) THEN <<1, f, h, l>> ELSE os[f][h][l]]]]

\* faulty variant: the lines that are rejected are left as they are
SetAll_SkipRejected(fs, value) ==
  [f \in 1..Len(fs) |->
     [fs[f] EXCEPT !.hunks =
        [h \in 1..Len(fs[f].hunks) |->
           [fs[f].hunks[h] EXCEPT !.lines =
              [l \in 1..Len(fs[f].hunks[h].lines) |->
                 IF IsChange(fs[f].hunks[h].lines[l]) /\ fs[f].hunks[h].lines[l].accepted # "false"
                 THEN [fs[f].hunks[h].lines[l] EXCEPT !.accepted = value]
                 ELSE fs[f].hunks[h].lines[l]]]]]]

SetAll(fs, value) ==
  [f \in 1..Len(fs) |->
     [fs[f] EXCEPT !.hunks =
        [h \in 1..Len(fs[f].hunks) |->
           [fs[f].hunks[h] EXCEPT !.lines =
              [l \in 1..Len(fs[f].hunks[h].lines) |->
                 IF IsChange(fs[f].hunks[h].lines[l])
                 THEN [fs[f].hunks[h].lines[l] EXCEPT !.accepted = value]
                 ELSE fs[f].hunks[h].lines[l]]]]]]

approveAll ==
  /\ pc = "review"
  /\ files' = SetAll(files, "true")
  /\ objs' = SetAllObjs(files, objs)
  /\ lastOp' = "approveAll"
  /\ UNCHANGED <<src, diffText, pc, out>>
  /\ UNCHANGED <<applyVars, extVars>>

rejectAll ==
  /\ pc = "review"
  /\ files' = SetAll(files, "false")
  /\ objs' = SetAllObjs(files, objs)
  /\ lastOp' = "rejectAll"
  /\ UNCHANGED <<src, diffText, pc, out>>
  /\ UNCHANGED <<applyVars, extVars>>

\* `line.accepted = accept` on the object `line`: every line of the document that
\* this object holds shows the new flag
SetObject(fs, os, obj, accept) ==
  [f \in 1..Len(fs) |->
     [fs[f] EXCEPT !.hunks =
        [h \in 1..Len(fs[f].hunks) |->
           [fs[f].hunks[h] EXCEPT !.lines =
              [l \in 1..Len(fs[f].hunks[h].lines) |->
                 IF os[f][h][l] = obj
                 THEN [fs[f].hunks[h].lines[l] EXCEPT !.accepted = accept]
                 ELSE fs[f].hunks[h].lines[l]]]]]]

\* toggleLine(line, accept) for the line object rendered at (f, h, l)
toggleLine ==
  /\ pc = "review"
  /\ \E f \in 1..Len(files) : \E h \in 1..Len(files[f].hunks) :
       \E l \in 1..Len(files[f].hunks[h].lines) : \E accept \in {"true", "false"} :
         /\ files' = IF ~IsChange(files[f].hunks[h].lines[l]) THEN files
                     ELSE SetObject(files, objs, objs[f][h][l], accept)
         /\ lastOp' = "toggleLine"
  /\ UNCHANGED <<src, diffText, objs, pc, out>>
  /\ UNCHANGED <<applyVars, extVars>>

\* faulty variant: the selection is used up, every line is accepted again
approveSelected_ConsumesSelection ==
  /\ pc \in {"review", "sent"}
  /\ out' = buildUnifiedDiff(files)
  /\ pc' = "sent"
  /\ files' = SetAll(files, "true")
  /\ UNCHANGED <<src, diffText, objs, lastOp>>
  /\ UNCHANGED <<applyVars, extVars>>

\* approveSelected: runAction("approve", { diff: buildUnifiedDiff(files) }); the
\* button stays, so the handler can run again on the document as it is
approveSelected ==
  /\ pc \in {"review", "sent"}
  /\ out' = buildUnifiedDiff(files)
  /\ pc' = "sent"
  /\ UNCHANGED <<src, diffText, files, objs, lastOp>>
  /\ UNCHANGED <<applyVars, extVars>>

Next == approveAll \/ rejectAll \/ toggleLine \/ approveSelected

Spec == Init /\ [][Next]_vars

(***************************************************************************)
(* parseUnifiedDiff on any text: the pending diff is a sequence of at most *)
(* MaxParseLines lines, each one of ParseVocab, in any order (well formed  *)
(* or not); the webview parses it when it renders the review.              *)
(***************************************************************************)
L_DiffGit == S_DiffGitSp \o <<"a", "/", "f", " ", "b", "/", "f">>
L_PathF == S_Plus3B \o <<"f">>
L_PathG == S_Plus3B \o <<"g">>
L_Hunk == <<"@", "@", " ", "-", "1", ",", "2", " ", "+", "3", ",", "2", " ", "@", "@">>
L_Other == <<"z", "z">>

ParseVocab ==
  { L_DiffGit, L_PathF, L_PathG, L_Hunk, <<"+", "a">>, <<"-", "b">>, <<SP, "c">>, L_Other }

ParseInputs == UNION {[1..n -> ParseVocab] : n \in 0..MaxParseLines}

InitParse ==
  /\ src \in ParseInputs
  /\ diffText = JoinLF(src)
  /\ files = <<>>
  /\ objs = <<>>
  /\ lastOp = "none"
  /\ pc = "pending"
  /\ out = <<>>
  /\ NoCall
  /\ Proposed(diffText)

\* the first render with a pending diff: diffFiles = parseUnifiedDiff(diff) and
\* the effect setFiles(diffFiles)
setFiles ==
  /\ pc = "pending"
  /\ files' = parseUnifiedDiff(diffText)
  /\ objs' = ParseObjs(files')
  /\ lastOp' = "parse"
  /\ pc' = "review"
  /\ UNCHANGED <<src, diffText, out>>
  /\ UNCHANGED <<applyVars, extVars>>

NextParse == setFiles

SpecParse == InitParse /\ [][NextParse]_vars

(***************************************************************************)
(* The pending diff parsed by the webview and rebuilt by approveSelected:  *)
(* the text the extension receives and hands to parseDiff. The lines are   *)
(* header lines, body lines and an Add line that ends with a carriage      *)
(* return.                                                                 *)
(***************************************************************************)
MaxRebuildLines == 5

L_AddCR == <<"+", "a", CR>>

RebuildVocab ==
  { L_DiffGit, L_PathF, L_Hunk, <<"+", "a">>, <<"-", "b">>, <<SP, "c">>, L_AddCR }

RebuildInputs == UNION {[1..n -> RebuildVocab] : n \in 0..MaxRebuildLines}

InitRebuild ==
  /\ src \in RebuildInputs
  /\ diffText = JoinLF(src)
  /\ files = <<>>
  /\ objs = <<>>
  /\ lastOp = "none"
  /\ pc = "pending"
  /\ out = <<>>
  /\ NoCall
  /\ Proposed(diffText)

NextRebuild == setFiles \/ approveSelected

SpecRebuild == InitRebuild /\ [][NextRebuild]_vars

(***************************************************************************)
(* Input of applyPatch: diffs whose hunks start at any old line 0..MaxStart *)
(* (the strategy in memory is positional and takes the header as it is);   *)
(* old line 0 is the start of a hunk without old lines only, as diff tools *)
(* write an insertion at the top of a file: "@@ -0,0 +1,n @@".             *)
(***************************************************************************)
\* the lines of a hunk body: the three kinds of line, and a second Add line
ApplyVocab == BodyVocab \cup { <<"+", "d">> }

ApplyBodies == UNION {[1..n -> ApplyVocab] : n \in 1..MaxApplyBody}

ApplySources ==
  UNION { { [nf |-> nf, hs |-> hs] :
              hs \in { h \in [1..k -> [file : 1..nf, start : 0..MaxStart, body : ApplyBodies]] :
                         /\ \A i \in 1..(k - 1) : h[i].file <= h[i + 1].file
                         /\ SumSeq([i \in 1..k |-> Len(h[i].body)]) <= MaxApplyLines
                         /\ \A i \in 1..k : h[i].start = 0 => OldCountOf(h[i].body) = 0 } } :
          nf \in 1..MaxFiles, k \in 0..MaxHunks }

RenderApplyFile(s, i) ==
  LET p == PathOf(i)
      idx == {j \in 1..Len(s.hs) : s.hs[j].file = i}
      first == IF idx = {} THEN 1 ELSE Min(idx)
  IN << S_DiffGitSp \o <<"a", "/">> \o p \o <<" ", "b", "/">> \o p,
        S_Minus3 \o <<"a", "/">> \o p,
        S_Plus3B \o p >>
     \o Flatten([k \in 1..Cardinality(idx) |->
          LET h == s.hs[first + k - 1]
          IN <<HunkHeaderText(h.start, OldCountOf(h.body),
                              IF OldCountOf(h.body) = 0 THEN h.start + 1 ELSE h.start,
                              NewCountOf(h.body))>>
             \o h.body])

RenderApply(s) ==
  JoinLF(Flatten([i \in 1..s.nf |-> RenderApplyFile(s, i)]) \o << <<>> >>)

\* a call of applyPatch(diffText) about to start, with the settings and the
\* working tree it will find
InitApply ==
  /\ src \in ApplySources
  /\ diffText = RenderApply(src)
  /\ files = <<>>
  /\ objs = <<>>
  /\ lastOp = "none"
  /\ pc = "approve"
  /\ out = <<>>
  /\ applyText = diffText
  /\ disk = InitialDisk
  /\ useGitApply \in BOOLEAN
  /\ gitDir \in BOOLEAN
  /\ apc = "NotStarted"
  /\ result = NoResult
  /\ queue = <<>>
  /\ fileIdx = 1
  /\ gitSpawned = FALSE
  /\ gitClosed = FALSE
  /\ gitExit = 0
  /\ gitLaunchFailed = FALSE
  /\ memEntered = FALSE
  /\ memWrites = 0
  /\ hunkRun = <<>>
  /\ hunkRunOf = <<>>
  /\ Proposed(diffText)

\* faulty variant: the .git marker is not looked for
ShouldTryGit_NoMarker(useGit, marker) == useGit

\* patchApply.ts:14  useGitApply && fs.existsSync(path.join(root, ".git"))
ShouldTryGit(useGit, marker) == useGit /\ marker

\* faulty variant: the result of git is final whatever its exit code
GitResultOk_Any(code) == TRUE

\* gitApply's close handler: code === 0
GitResultOk(code) == code = 0

\* `await applyUnifiedDiff(root, diffText)` up to its first file: parseDiff, and
\* the return when there is no file
EnterInMemory ==
  /\ memEntered' = TRUE
  /\ queue' = parseDiff(applyText)
  /\ fileIdx' = 1
  /\ IF Len(queue') = 0
     THEN /\ apc' = "Done"
          /\ result' = [ok |-> TRUE, message |-> "Patch applied (WorkspaceEdit)", path |-> <<>>]
     ELSE /\ apc' = "TryInMemory"
          /\ UNCHANGED result

\* applyPatch up to its first await
applyPatch ==
  /\ apc = "NotStarted"
  /\ \E root \in BOOLEAN :
       IF ~root THEN
         /\ apc' = "Done"
         /\ result' = [ok |-> FALSE, message |-> "No workspace folder open", path |-> <<>>]
         /\ UNCHANGED <<queue, fileIdx, gitSpawned, memEntered>>
       ELSE IF ShouldTryGit(useGitApply, gitDir) THEN
         /\ apc' = "TryExternal"
         /\ gitSpawned' = TRUE
         /\ UNCHANGED <<result, queue, fileIdx, memEntered>>
       ELSE
         /\ EnterInMemory
         /\ UNCHANGED gitSpawned
  /\ UNCHANGED <<applyText, disk, useGitApply, gitDir, gitClosed, gitExit,
                 gitLaunchFailed, memWrites, hunkRun, hunkRunOf>>
  /\ UNCHANGED <<reviewVars, extVars>>

\* the close event of the child process: gitApply resolves, applyPatch goes on
gitClose ==
  /\ apc = "TryExternal"
  /\ ~gitLaunchFailed
  /\ \E code \in {0, 1} :
       /\ gitClosed' = TRUE
       /\ gitExit' = code
       /\ IF GitResultOk(code) THEN
            /\ apc' = "Done"
            /\ result' = [ok |-> TRUE, message |-> "Patch applied (git apply)", path |-> <<>>]
            /\ UNCHANGED <<queue, fileIdx, memEntered>>
          ELSE EnterInMemory
  /\ UNCHANGED <<applyText, disk, useGitApply, gitDir, gitSpawned, gitLaunchFailed,
                 memWrites, hunkRun, hunkRunOf>>
  /\ UNCHANGED <<reviewVars, extVars>>

\* git cannot be launched: the child emits "error".  gitApply listens to "close"
\* and to stderr "data" only, so the event is unhandled, the promise of gitApply
\* is never resolved and applyPatch stays at its await.
gitError ==
  /\ apc = "TryExternal"
  /\ ~gitLaunchFailed
  /\ gitLaunchFailed' = TRUE
  /\ UNCHANGED <<applyText, disk, useGitApply, gitDir, apc, result, queue, fileIdx,
                 gitSpawned, gitClosed, gitExit, memEntered, memWrites, hunkRun,
                 hunkRunOf>>
  /\ UNCHANGED <<reviewVars, extVars>>

\* faulty variant: the files written before the failure are restored
WriteFailed_Rollback(file) ==
  /\ apc' = "Done"
  /\ result' = [ok |-> FALSE, message |-> "Failed to apply edits to", path |-> file.path]
  /\ disk' = InitialDisk
  /\ UNCHANGED <<fileIdx, memWrites>>

\* applyEdit resolved false: applyUnifiedDiff throws, the catch of applyPatch
\* returns { ok: false, message: "Failed to apply edits to <file.path>" }
WriteFailed(file) ==
  /\ apc' = "Done"
  /\ result' = [ok |-> FALSE, message |-> "Failed to apply edits to", path |-> file.path]
  /\ UNCHANGED <<disk, fileIdx, memWrites>>

\* one iteration of `for (const file of files)` in applyUnifiedDiff: the file is
\* read, applyHunks computes its new content and applyEdit replaces it or fails
applyFile ==
  /\ apc = "TryInMemory"
  /\ fileIdx <= Len(queue)
  /\ LET file == queue[fileIdx]
         exists == file.path \in DOMAIN disk /\ disk[file.path].exists
         original == IF exists THEN disk[file.path].content ELSE <<>>
     IN /\ hunkRun' = ApplyHunksRun(original, file.hunks)
        /\ hunkRunOf' = file.hunks
        /\ \E ok \in BOOLEAN :
             IF ~ok THEN WriteFailed(file)
             ELSE
               /\ disk' = [disk EXCEPT ![file.path] =
                                           Present(applyHunks(original, file.hunks))]
               /\ memWrites' = memWrites + 1
               /\ fileIdx' = fileIdx + 1
               /\ IF fileIdx = Len(queue)
                  THEN /\ apc' = "Done"
                       /\ result' = [ok |-> TRUE, message |-> "Patch applied (WorkspaceEdit)",
                                     path |-> <<>>]
                  ELSE UNCHANGED <<apc, result>>
  /\ UNCHANGED <<applyText, useGitApply, gitDir, queue, gitSpawned, gitClosed, gitExit,
                 gitLaunchFailed, memEntered>>
  /\ UNCHANGED <<reviewVars, extVars>>

NextApply == applyPatch \/ gitClose \/ gitError \/ applyFile

SpecApply == InitApply /\ [][NextApply]_vars

\* the calls whose diff has at most one hunk, of one line
OneHunkSources ==
  {s \in ApplySources : Len(s.hs) <= 1 /\ \A i \in 1..Len(s.hs) : Len(s.hs[i].body) = 1}

InitApplyOneHunk ==
  /\ src \in OneHunkSources
  /\ InitApply

\* The same call under the scheduling of the extension host: a call that was made
\* runs to its first await, a child process that was spawned ends with its close
\* event or with its error event, and applyEdit always resolves.
SpecApplyFair ==
  /\ InitApplyOneHunk
  /\ [][NextApply]_vars
  /\ WF_vars(applyPatch)
  /\ WF_vars(gitClose \/ gitError)
  /\ WF_vars(applyFile)

(***************************************************************************)
(* applyPatch with git apply switched off, on any text made of section     *)
(* lines, path lines, hunk headers and body lines.                         *)
(***************************************************************************)
MaxApplyTextLines == 5

L_DevNull == S_Plus3 \o <<"/", "d", "e", "v", "/", "n", "u", "l", "l">>

ApplyTextVocab ==
  { L_DiffGit, L_PathF, L_PathG, L_DevNull, L_Hunk, <<"+", "a">>, <<"-", "b">> }

ApplyTextInputs == UNION {[1..n -> ApplyTextVocab] : n \in 0..MaxApplyTextLines}

InitApplyText ==
  /\ src \in ApplyTextInputs
  /\ diffText = JoinLF(src)
  /\ files = <<>>
  /\ objs = <<>>
  /\ lastOp = "none"
  /\ pc = "approve"
  /\ out = <<>>
  /\ applyText = diffText
  /\ disk = InitialDisk
  /\ useGitApply = FALSE
  /\ gitDir \in BOOLEAN
  /\ apc = "NotStarted"
  /\ result = NoResult
  /\ queue = <<>>
  /\ fileIdx = 1
  /\ gitSpawned = FALSE
  /\ gitClosed = FALSE
  /\ gitExit = 0
  /\ gitLaunchFailed = FALSE
  /\ memEntered = FALSE
  /\ memWrites = 0
  /\ hunkRun = <<>>
  /\ hunkRunOf = <<>>
  /\ Proposed(diffText)

NextApplyText == applyPatch \/ applyFile

SpecApplyText == InitApplyText /\ [][NextApplyText]_vars

(***************************************************************************)
(* A session: the pending diff of one file is reviewed in the webview and  *)
(* approved, rejected or reset in the extension host; approve asks the     *)
(* server and falls back to applyPatch. The file of the working tree is    *)
(* the old side of the pending diff: the Context and Delete lines of each  *)
(* hunk at its old start, and lines of its own elsewhere.                  *)
(***************************************************************************)
MaxSessionLines == 3
MaxMessages == 2

SessionSources ==
  {s \in Sources :
     /\ s.nf = 1
     /\ Len(s.hs) >= 1
     /\ SumSeq([i \in 1..Len(s.hs) |-> Len(s.hs[i].body)]) <= MaxSessionLines
     /\ \A i \in 1..Len(s.hs) :
          /\ OldCountOf(s.hs[i].body) >= 1
          /\ \E l \in 1..Len(s.hs[i].body) : s.hs[i].body[l][1] \in {"+", "-"}
          /\ \A l \in 1..Len(s.hs[i].body) : s.hs[i].body[l] \in BodyVocab}

OwnLines == <<<<"u">>, <<"v">>, <<"w">>, <<"x">>, <<"y">>, <<"z">>>>

\* the contents of the Context and Delete lines of a hunk body, in order
OldBlockOf(body) ==
  LET IsOld(l) == l[1] \in {SP, "-"}
      sel == SelectSeq(body, IsOld)
  IN [i \in 1..Len(sel) |-> Tail(sel[i])]

OldFileLines(s) ==
  LET bodies == BodiesOf(s, 1)
  IN [j \in 1..(HunkGap * MaxHunks) |->
        IF \E k \in 1..Len(bodies) :
             SrcOldStart(k) <= j /\ j < SrcOldStart(k) + OldCountOf(bodies[k])
        THEN LET k == CHOOSE k \in 1..Len(bodies) :
                        SrcOldStart(k) <= j /\ j < SrcOldStart(k) + OldCountOf(bodies[k])
             IN OldBlockOf(bodies[k])[j - SrcOldStart(k) + 1]
        ELSE OwnLines[j]]

SessionDisk(s) ==
  [p \in DiskPaths |-> IF p = PathOf(1) THEN Present(JoinLF(OldFileLines(s))) ELSE Absent]

InitSession ==
  /\ src \in SessionSources
  /\ diffText = Render(src)
  /\ files = parseUnifiedDiff(diffText)
  /\ objs = ParseObjs(files)
  /\ lastOp = "parse"
  /\ pc = "review"
  /\ out = <<>>
  /\ applyText = <<>>
  /\ disk = SessionDisk(src)
  /\ useGitApply = TRUE
  /\ gitDir \in BOOLEAN
  /\ apc = "Idle"
  /\ result = NoResult
  /\ queue = <<>>
  /\ fileIdx = 1
  /\ gitSpawned = FALSE
  /\ gitClosed = FALSE
  /\ gitExit = 0
  /\ gitLaunchFailed = FALSE
  /\ memEntered = FALSE
  /\ memWrites = 0
  /\ hunkRun = <<>>
  /\ hunkRunOf = <<>>
  /\ Proposed(diffText)

\* approve(diffOverride) up to its first await: the message of approveSelected
\* brings payload.diff, the command brings none. One call of applyPatch is
\* followed in a session.
approve ==
  /\ epc = "idle"
  /\ apc = "Idle"
  /\ Len(messages) < MaxMessages
  /\ \E ov \in {Undefined} \cup (IF pc = "sent" THEN {Given(out)} ELSE {}) :
       /\ diffOverride' = ov
       /\ IF ~pending.has THEN
            /\ lastExt' = "No pending patch"
            /\ UNCHANGED <<epc, diffToApply, serverDiff>>
          ELSE
            \* diffOverride || this.pending.diff: "" and undefined are falsy
            LET chosen == IF ov.given /\ ov.diff # <<>> THEN ov.diff ELSE pending.diff
            IN /\ diffToApply' = chosen
               /\ serverDiff' = Sent(chosen)
               /\ \E useStreaming \in BOOLEAN :
                    epc' = IF useStreaming THEN "approveStream" ELSE "approveServer"
               /\ UNCHANGED lastExt
  /\ UNCHANGED <<pending, messages>>
  /\ UNCHANGED <<reviewVars, applyVars>>

\* the answer to postStream("/approve_stream"): refused (stream.ok is false), or
\* a stream that is read to its end, or one whose read fails (approve throws)
approveStreamEnd ==
  /\ epc = "approveStream"
  /\ \E answer \in {"refused", "done", "broken"} :
       /\ messages' = Append(messages, IF answer = "refused" THEN "Approve failed"
                                       ELSE "Approving")
       /\ pending' = IF answer = "done" THEN NoPatch ELSE pending
       /\ lastExt' = IF answer = "refused" THEN "Approve failed"
                     ELSE IF answer = "done" THEN "Approved (stream)"
                     ELSE "Stream failed"
  /\ epc' = "idle"
  /\ UNCHANGED <<diffOverride, diffToApply, serverDiff>>
  /\ UNCHANGED <<reviewVars, applyVars>>

\* faulty variant: the fallback is not awaited, pending is cleared at once
approveServerEnd_ClearsFirst ==
  /\ epc = "approveServer"
  /\ \E ok \in BOOLEAN :
       IF ok THEN
         /\ messages' = Append(messages, "Approved on server")
         /\ pending' = NoPatch
         /\ epc' = "idle"
         /\ lastExt' = "Approved on server"
         /\ UNCHANGED applyVars
       ELSE
         /\ applyText' = diffToApply
         /\ apc' = "NotStarted"
         /\ epc' = "approveLocal"
         /\ pending' = NoPatch
         /\ UNCHANGED <<messages, lastExt>>
         /\ UNCHANGED <<disk, useGitApply, gitDir, result, queue, fileIdx, gitSpawned,
                        gitClosed, gitExit, gitLaunchFailed, memEntered, memWrites,
                        hunkRun, hunkRunOf>>
  /\ UNCHANGED <<diffOverride, diffToApply, serverDiff>>
  /\ UNCHANGED reviewVars

\* the answer to post("/approve"): ok, or the call of applyPatch(diffToApply)
approveServerEnd ==
  /\ epc = "approveServer"
  /\ \E ok \in BOOLEAN :
       IF ok THEN
         /\ messages' = Append(messages, "Approved on server")
         /\ pending' = NoPatch
         /\ epc' = "idle"
         /\ lastExt' = "Approved on server"
         /\ UNCHANGED applyVars
       ELSE
         /\ applyText' = diffToApply
         /\ apc' = "NotStarted"
         /\ epc' = "approveLocal"
         /\ UNCHANGED <<pending, messages, lastExt>>
         /\ UNCHANGED <<disk, useGitApply, gitDir, result, queue, fileIdx, gitSpawned,
                        gitClosed, gitExit, gitLaunchFailed, memEntered, memWrites,
                        hunkRun, hunkRunOf>>
  /\ UNCHANGED <<diffOverride, diffToApply, serverDiff>>
  /\ UNCHANGED reviewVars

\* applyPatch resolved: approve goes on after `await applyPatch(diffToApply)`
approveLocalEnd ==
  /\ epc = "approveLocal"
  /\ apc = "Done"
  /\ IF ~result.ok THEN
       /\ lastExt' = "Apply failed"
       /\ UNCHANGED <<pending, messages>>
     ELSE
       /\ messages' = Append(messages, result.message)
       /\ pending' = NoPatch
       /\ lastExt' = "Applied"
  /\ epc' = "idle"
  /\ UNCHANGED <<diffOverride, diffToApply, serverDiff>>
  /\ UNCHANGED <<reviewVars, applyVars>>

\* reject(): pending is cleared, then "/reject" is posted
reject ==
  /\ epc = "idle"
  /\ pending' = NoPatch
  /\ lastExt' = "Rejected"
  /\ UNCHANGED <<messages, epc, diffOverride, diffToApply, serverDiff>>
  /\ UNCHANGED <<reviewVars, applyVars>>

\* resetContext(): "/reset_context" is posted; on its failure the handler returns
resetContext ==
  /\ epc = "idle"
  /\ Len(messages) < MaxMessages
  /\ \E ok \in BOOLEAN :
       IF ~ok THEN
         /\ lastExt' = "Reset failed"
         /\ UNCHANGED <<pending, messages>>
       ELSE
         /\ messages' = Append(messages, "Context reset")
         /\ pending' = NoPatch
         /\ lastExt' = "Context reset"
  /\ UNCHANGED <<epc, diffOverride, diffToApply, serverDiff>>
  /\ UNCHANGED <<reviewVars, applyVars>>

NextSession ==
  \/ approveAll \/ rejectAll \/ toggleLine \/ approveSelected
  \/ approve \/ approveStreamEnd \/ approveServerEnd \/ approveLocalEnd
  \/ reject \/ resetContext
  \/ applyPatch \/ gitClose \/ gitError \/ applyFile

SpecSession == InitSession /\ [][NextSession]_vars

(***************************************************************************)
(* Reading a unified-diff text as its grammar defines it: a file section   *)
(* runs from a "diff --git " line to the next one, its header is what      *)
(* precedes the first hunk header, and the body of a hunk is every line    *)
(* after its header up to the next hunk header or file section.            *)
(***************************************************************************)
TextLines(text) == IF text = <<>> THEN <<>> ELSE SplitLF(text)

IsDiffGitLine(l) == StartsWith(l, S_DiffGitSp)
IsHunkHeaderLine(l) == HUNK_RE(l).ok

RECURSIVE SortedSeq(_)
SortedSeq(S) == IF S = {} THEN <<>> ELSE <<Min(S)>> \o SortedSeq(S \ {Min(S)})

\* the last line of the stretch that starts at line i and ends before the next line in `stops`
StretchEnd(L, i, stops) ==
  LET later == {j \in stops : j > i}
  IN IF later = {} THEN Len(L) ELSE Min(later) - 1

ReadSection(L) ==
  LET hp == SortedSeq({i \in 1..Len(L) : IsHunkHeaderLine(L[i])})
  IN [header |-> IF hp = <<>> THEN L ELSE SubSeq(L, 1, hp[1] - 1),
      hunks |-> [k \in 1..Len(hp) |->
                   [header |-> L[hp[k]],
                    body |-> SubSeq(L, hp[k] + 1,
                                    StretchEnd(L, hp[k], {hp[j] : j \in 1..Len(hp)}))]]]

ReadFiles(L) ==
  LET gp == {i \in 1..Len(L) : IsDiffGitLine(L[i])}
      gs == SortedSeq(gp)
  IN [k \in 1..Len(gs) |-> ReadSection(SubSeq(L, gs[k], StretchEnd(L, gs[k], gp)))]

OutFiles == ReadFiles(TextLines(out))

(***************************************************************************)
(* The document side of the claims about buildUnifiedDiff.                 *)
(***************************************************************************)
Rejected(l) == IsChange(l) /\ l.accepted = "false"

\* a hunk with at least one Add/Delete line that is not rejected
HunkSurvives(h) == \E i \in 1..Len(h.lines) : IsChange(h.lines[i]) /\ ~Rejected(h.lines[i])
FileSurvives(f) == \E h \in 1..Len(f.hunks) : HunkSurvives(f.hunks[h])

SurvivingFiles == SelectSeq(files, FileSurvives)
SurvivingHunks(f) == SelectSeq(f.hunks, HunkSurvives)

NotRejected(l) == ~Rejected(l)
KeptOf(h) == SelectSeq(h.lines, NotRejected)
KeptCount(h, types) ==
  Cardinality({i \in 1..Len(h.lines) : h.lines[i].type \in types /\ ~Rejected(h.lines[i])})

\* the emitted hunks line up with the surviving hunks, file by file
SameShape ==
  /\ Len(OutFiles) = Len(SurvivingFiles)
  /\ \A k \in 1..Len(OutFiles) :
       Len(OutFiles[k].hunks) = Len(SurvivingHunks(SurvivingFiles[k]))

Untouched == lastOp = "parse"

\* every file of the source has a hunk and every hunk changes something
ValidDiff(s) ==
  /\ \A i \in 1..s.nf : \E j \in 1..Len(s.hs) : s.hs[j].file = i
  /\ \A j \in 1..Len(s.hs) : \E i \in 1..Len(s.hs[j].body) : s.hs[j].body[i][1] \in {"+", "-"}

\* C1: for a valid unified diff D, buildUnifiedDiff(parseUnifiedDiff(D)) with no
\* acceptance change has the files of D in order, per file the hunks of D, and per
\* hunk the body lines of D in order.
C1_RoundTrip ==
  (pc = "sent" /\ Untouched /\ ValidDiff(src))
    => OutFiles = ReadFiles(TextLines(diffText))

\* C2: a hunk whose Add/Delete lines are all rejected (or that has none) is absent
\* from the output, header and Context/Meta lines included, and every hunk with an
\* accepted Add/Delete line is present: the hunk headers of the output are those of
\* the surviving hunks, in order, and the output has no Context or Meta body line
\* beyond those of the surviving hunks.
C2_EmptyHunksDropped ==
  pc = "sent" =>
    /\ SameShape
    /\ \A k \in 1..Len(OutFiles) : \A j \in 1..Len(OutFiles[k].hunks) :
         ParseInt(HUNK_RE(OutFiles[k].hunks[j].header).g1)
           = SurvivingHunks(SurvivingFiles[k])[j].oldStart
    /\ SumSeq([k \in 1..Len(OutFiles) |->
         SumSeq([j \in 1..Len(OutFiles[k].hunks) |->
           Cardinality({i \in 1..Len(OutFiles[k].hunks[j].body) :
              ~StartsWith(OutFiles[k].hunks[j].body[i], <<"+">>)
              /\ ~StartsWith(OutFiles[k].hunks[j].body[i], <<"-">>)})])])
       = SumSeq([k \in 1..Len(SurvivingFiles) |->
           SumSeq([j \in 1..Len(SurvivingHunks(SurvivingFiles[k])) |->
             KeptCount(SurvivingHunks(SurvivingFiles[k])[j], {"ctx", "meta"})])])

C2_Witness ==
  /\ pc = "sent"
  /\ \E f \in 1..Len(files) : \E h, g \in 1..Len(files[f].hunks) :
       /\ ~HunkSurvives(files[f].hunks[h])
       /\ \E i \in 1..Len(files[f].hunks[h].lines) : Rejected(files[f].hunks[h].lines[i])
       /\ \E i \in 1..Len(files[f].hunks[h].lines) : files[f].hunks[h].lines[i].type = "ctx"
       /\ HunkSurvives(files[f].hunks[g])

\* C3: every emitted hunk header is "@@ -oldStart,oldCount +newStart,newCount @@"
\* with oldStart and newStart of the original hunk, oldCount the kept Context and
\* Delete lines and newCount the kept Context and Add lines.
C3_HeaderRecomputed ==
  pc = "sent" =>
    /\ SameShape
    /\ \A k \in 1..Len(OutFiles) : \A j \in 1..Len(OutFiles[k].hunks) :
         LET h == SurvivingHunks(SurvivingFiles[k])[j]
         IN OutFiles[k].hunks[j].header
              = HunkHeaderText(h.oldStart, KeptCount(h, {"ctx", "del"}),
                               h.newStart, KeptCount(h, {"ctx", "add"}))

\* the second hunk of a file is emitted with a rejected line, after a first hunk
\* that lost a line too
C3_Witness ==
  /\ pc = "sent"
  /\ \E f \in 1..Len(files) :
       /\ Len(files[f].hunks) = 2
       /\ \A h \in 1..2 :
            /\ HunkSurvives(files[f].hunks[h])
            /\ \E i \in 1..Len(files[f].hunks[h].lines) : Rejected(files[f].hunks[h].lines[i])

\* C4: the body of every emitted hunk is the original hunk's line sequence without
\* its rejected Add/Delete lines: Context, Meta and accepted lines, in order, with
\* their text unchanged.
C4_BodyIsKeptLines ==
  pc = "sent" =>
    /\ SameShape
    /\ \A k \in 1..Len(OutFiles) : \A j \in 1..Len(OutFiles[k].hunks) :
         LET kept == KeptOf(SurvivingHunks(SurvivingFiles[k])[j])
         IN OutFiles[k].hunks[j].body = [i \in 1..Len(kept) |-> kept[i].text]

C4_Witness ==
  /\ pc = "sent"
  /\ \E f \in 1..Len(files) : \E h \in 1..Len(files[f].hunks) :
       LET ls == files[f].hunks[h].lines
       IN /\ HunkSurvives(files[f].hunks[h])
          /\ \E i \in 1..Len(ls) : Rejected(ls[i])
          /\ \E i \in 1..Len(ls) : ls[i].type = "ctx"
          /\ \E i \in 1..Len(ls) : ls[i].type = "meta"

AllRejected ==
  \A f \in 1..Len(files) : \A h \in 1..Len(files[f].hunks) :
    \A i \in 1..Len(files[f].hunks[h].lines) :
      IsChange(files[f].hunks[h].lines[i]) => files[f].hunks[h].lines[i].accepted = "false"

\* C5: once every Add/Delete line is rejected, buildUnifiedDiff returns the empty text.
C5_FullRejectionEmpty == (pc = "sent" /\ AllRejected) => out = <<>>

C5_Witness ==
  /\ pc = "sent"
  /\ lastOp = "rejectAll"
  /\ Len(files) = 2
  /\ \A f \in 1..2 : \E h \in 1..Len(files[f].hunks) :
       \E i \in 1..Len(files[f].hunks[h].lines) : Rejected(files[f].hunks[h].lines[i])
  /\ out = <<>>

\* C6: a file without a surviving hunk contributes nothing, and the surviving files
\* are emitted in original order, each as its header lines followed by its hunks.
C6_FilesDroppedOrInOrder ==
  pc = "sent" =>
    /\ SameShape
    /\ \A k \in 1..Len(OutFiles) : OutFiles[k].header = SurvivingFiles[k].header
    /\ Len(TextLines(out))
         = SumSeq([k \in 1..Len(OutFiles) |->
             Len(OutFiles[k].header)
             + SumSeq([j \in 1..Len(OutFiles[k].hunks) |->
                         1 + Len(OutFiles[k].hunks[j].body)])])

\* the first file lost all its hunks to rejection and the second survives
C6_Witness ==
  /\ pc = "sent"
  /\ Len(files) = 2
  /\ ~FileSurvives(files[1])
  /\ \E h \in 1..Len(files[1].hunks) : \E i \in 1..Len(files[1].hunks[h].lines) :
       Rejected(files[1].hunks[h].lines[i])
  /\ FileSurvives(files[2])

(***************************************************************************)
(* Claims about applyPatch, checked under SpecApply.                       *)
(***************************************************************************)
FromInMemory == result.message \in {"Patch applied (WorkspaceEdit)", "Failed to apply edits to"}

\* C7: git is spawned only when useGitApply is set and the .git marker exists; when
\* either is false the call (with a workspace root) goes directly to the strategy
\* in memory and never spawns git.
C7_ExternalOnlyWhenEligible ==
  /\ gitSpawned => (useGitApply /\ gitDir)
  /\ (apc # "NotStarted" /\ result.message # "No workspace folder open"
        /\ ~(useGitApply /\ gitDir))
       => (memEntered /\ ~gitSpawned /\ ~gitClosed)

\* the setting is on, the marker is missing, and the call ended in memory
C7_Witness ==
  /\ apc = "Done"
  /\ useGitApply
  /\ ~gitDir
  /\ ~gitSpawned
  /\ result.ok
  /\ result.message = "Patch applied (WorkspaceEdit)"
  /\ memWrites > 0

\* C8: when git exits with code 0 the call ends as applied by git and the strategy
\* in memory is not run and writes no file; when it exits with another code the
\* strategy in memory is run next and the outcome of the call is its outcome.
C8_ExitCodeDecides ==
  /\ (gitClosed /\ gitExit = 0) =>
       /\ apc = "Done"
       /\ result = [ok |-> TRUE, message |-> "Patch applied (git apply)", path |-> <<>>]
       /\ ~memEntered
       /\ memWrites = 0
       /\ disk = InitialDisk
  /\ (gitClosed /\ gitExit # 0) =>
       /\ memEntered
       /\ apc \in {"TryInMemory", "Done"}
       /\ apc = "Done" => FromInMemory

\* git exited with a non-zero code and the strategy in memory applied the diff
C8_Witness ==
  /\ gitClosed
  /\ gitExit = 1
  /\ apc = "Done"
  /\ result.ok
  /\ result.message = "Patch applied (WorkspaceEdit)"
  /\ memWrites > 0

\* C9: when git cannot be used, because the marker is absent or because git fails
\* to launch, the call still reaches the strategy in memory.
C9_FallbackWhenToolUnavailable ==
  /\ gitLaunchFailed => memEntered
  /\ (apc # "NotStarted" /\ result.message # "No workspace folder open" /\ ~gitDir)
       => memEntered

\* the lines of a with (0-based) index below n, and those with index n or more
Below(a, n) == SubSeq(a, 1, IF n < 0 THEN 0 ELSE IF n > Len(a) THEN Len(a) ELSE n)
AtOrAfter(a, n) == SubSeq(a, (IF n < 0 THEN 0 ELSE IF n > Len(a) THEN Len(a) ELSE n) + 1, Len(a))

\* the contents of the Add and Context lines of a hunk body, in order
RECURSIVE BlockOf(_)
BlockOf(ls) ==
  IF ls = <<>> THEN <<>>
  ELSE (IF Len(ls[1]) > 0 /\ ls[1][1] \in {"+", SP} THEN <<Tail(ls[1])>> ELSE <<>>)
       \o BlockOf(Tail(ls))

HunkRewrites(k) ==
  LET h == hunkRunOf[k]
      at == h.oldStart - 1 + hunkRun[k].offset
  IN hunkRun[k + 1].lines
       = Below(hunkRun[k].lines, at) \o BlockOf(h.lines)
         \o AtOrAfter(hunkRun[k].lines, at + h.oldLines)

\* C10: each hunk replaces exactly the slice [oldStart - 1 + offset,
\* oldStart - 1 + offset + oldLines) of the current lines by the contents of its
\* Add and Context lines; the lines outside the slice stay, in order.
C10_HunkReplacesSlice == \A k \in 1..Len(hunkRunOf) : HunkRewrites(k)

\* the file of the queue the last run of applyHunks was for
RunFile ==
  IF result.message = "Failed to apply edits to" THEN fileIdx ELSE fileIdx - 1

\* the hunks the diff gives for the file with this path, in the order of the text
SrcHunksOf(path) ==
  LET IsOfPath(h) == PathOf(h.file) = path
  IN SelectSeq(src.hs, IsOfPath)

\* the net growth of the hunks before hunk k: block length minus oldLines, summed
RECURSIVE NetBefore(_, _)
NetBefore(hs, k) ==
  IF k <= 1 THEN 0
  ELSE NetBefore(hs, k - 1) + Len(BlockOf(hs[k - 1].lines)) - hs[k - 1].oldLines

\* C11: the hunks of a file are applied in the order of the text; the offset is 0
\* before the first hunk of every file and, before hunk k, the sum over the earlier
\* hunks of that file of (block length - oldLines); a hunk whose position
\* oldStart - 1 + offset is in the file is spliced at that position.
C11_OffsetPropagation ==
  hunkRun # <<>> =>
    LET hs == SrcHunksOf(queue[RunFile].path)
    IN /\ Len(hunkRunOf) = Len(hs)
       /\ \A k \in 1..Len(hs) :
            /\ hunkRunOf[k].oldStart = hs[k].start
            /\ BlockOf(hunkRunOf[k].lines) = BlockOf(hs[k].body)
       /\ hunkRun[1].offset = 0
       /\ \A k \in 1..(Len(hunkRunOf) + 1) : hunkRun[k].offset = NetBefore(hunkRunOf, k)
       /\ \A k \in 1..Len(hunkRunOf) :
            hunkRunOf[k].oldStart - 1 + hunkRun[k].offset >= 0 => HunkRewrites(k)

\* a file with two hunks, the first of which nets +2 lines: the second one is
\* applied with offset 2
C11_Witness ==
  /\ Len(hunkRunOf) = 2
  /\ hunkRun[2].offset = 2
  /\ hunkRunOf[2].oldStart >= 1
  /\ memWrites > 0

\* the second file of a diff after a first file that grew: its offset starts at 0
C11_WitnessNextFile ==
  /\ hunkRun # <<>>
  /\ RunFile = 2
  /\ Len(hunkRunOf) = 1
  /\ Len(SplitLF(disk[PathOf(1)].content)) > 3

\* the lines of a text file: each line ends at a line feed, and the characters
\* after the last line feed, if any, are a last line
FileLines(text) ==
  LET parts == SplitLF(text)
  IN IF parts[Len(parts)] = <<>> THEN SubSeq(parts, 1, Len(parts) - 1) ELSE parts

\* file i of the queue did not exist and the diff has for it the single hunk
\* "@@ -0,0 +1,2 @@" with two Add lines
IsNewFileOfTwo(i) ==
  LET hs == SrcHunksOf(queue[i].path)
  IN /\ ~InitialDisk[queue[i].path].exists
     /\ Len(hs) = 1
     /\ hs[1].start = 0
     /\ Len(hs[1].body) = 2
     /\ \A l \in 1..2 : hs[1].body[l][1] = "+"

\* C12: when the strategy in memory has written a file that did not exist and
\* whose only hunk is "@@ -0,0 +1,2 @@" with two Add lines, the file exists and
\* its lines are the contents of the two Add lines, in order.
C12_NewFileHasTheTwoLines ==
  \A i \in 1..Len(queue) :
    (i < fileIdx /\ IsNewFileOfTwo(i)) =>
      LET hs == SrcHunksOf(queue[i].path)
      IN /\ disk[queue[i].path].exists
         /\ FileLines(disk[queue[i].path].content) = <<Tail(hs[1].body[1]), Tail(hs[1].body[2])>>

\* a new file was written from two different Add lines
C12_Witness ==
  \E i \in 1..Len(queue) :
    /\ i < fileIdx
    /\ IsNewFileOfTwo(i)
    /\ SrcHunksOf(queue[i].path)[1].body = << <<"+", "a">>, <<"+", "d">> >>
    /\ disk[queue[i].path].exists

Failed == result.message = "Failed to apply edits to"

\* C13: a write that fails ends the call as failed with the path of that file in
\* the reason; the failing step and every later step leave the working tree as it
\* is (no rollback, no later file written), a file is only ever changed by the
\* successful write of the current file, and no run of applyHunks is made for a
\* later file.
C13_NonAtomicFailure ==
  /\ [](Failed =>
          /\ apc = "Done"
          /\ ~result.ok
          /\ fileIdx <= Len(queue)
          /\ result.path = queue[fileIdx].path
          /\ memWrites = fileIdx - 1
          /\ hunkRunOf = queue[fileIdx].hunks
          /\ \A i \in (fileIdx + 1)..Len(queue) :
               disk[queue[i].path] = InitialDisk[queue[i].path])
  /\ [][ /\ (Failed' \/ apc = "Done") => disk' = disk
         /\ \A p \in DiskPaths :
              disk'[p] # disk[p] =>
                (apc = "TryInMemory" /\ p = queue[fileIdx].path /\ fileIdx' = fileIdx + 1) ]_vars

\* the write of the second file failed after the first file was given new content
C13_Witness ==
  /\ Failed
  /\ fileIdx = 2
  /\ result.path = PathOf(2)
  /\ disk[PathOf(1)] # InitialDisk[PathOf(1)]
  /\ disk[PathOf(2)] = InitialDisk[PathOf(2)]

Outcomes ==
  {"Patch applied (git apply)", "Patch applied (WorkspaceEdit)",
   "Failed to apply edits to", "No workspace folder open"}

\* C14: every call of applyPatch eventually resolves, with one of the outcomes, and
\* once it has resolved its outcome never changes.
C14_OneTerminalOutcome ==
  /\ <>(apc = "Done")
  /\ [](apc = "Done" => result.message \in Outcomes)
  /\ [][apc = "Done" => (apc' = "Done" /\ result' = result)]_vars

\* the same, for the calls in which git, if it is spawned, can be launched
C14_OneOutcomeWhenGitLaunches ==
  /\ <>(apc = "Done" \/ gitLaunchFailed)
  /\ [](apc = "Done" => result.message \in Outcomes)
  /\ [][apc = "Done" => (apc' = "Done" /\ result' = result)]_vars

(***************************************************************************)
(* Claims about parseUnifiedDiff on any text, checked under SpecParse.     *)
(***************************************************************************)
\* the number of lines among the first n of ls whose type is in types
RECURSIVE CountTypes(_, _, _)
CountTypes(ls, n, types) ==
  IF n = 0 THEN 0
  ELSE CountTypes(ls, n - 1, types) + (IF ls[n].type \in types THEN 1 ELSE 0)

CursorsOf(h) ==
  \A i \in 1..Len(h.lines) :
    LET l == h.lines[i]
        olds == CountTypes(h.lines, i - 1, {"del", "ctx"})
        news == CountTypes(h.lines, i - 1, {"add", "ctx"})
    IN /\ l.type \in {"del", "ctx"} => l.oldLine = h.oldStart + olds
       /\ l.type \in {"add", "ctx"} => l.newLine = h.newStart + news
       /\ l.type \in {"add", "meta"} => l.oldLine = Undef
       /\ l.type \in {"del", "meta"} => l.newLine = Undef

\* C15: in every hunk of the parsed document the i-th Delete-or-Context line has
\* oldLine = oldStart + i and the j-th Add-or-Context line has newLine =
\* newStart + j (i, j from 0); Meta lines, and Add lines for the old side and
\* Delete lines for the new side, take no number and advance nothing.
C15_CursorInvariant ==
  pc = "review" =>
    \A f \in 1..Len(files) : \A h \in 1..Len(files[f].hunks) : CursorsOf(files[f].hunks[h])

\* a hunk with a Meta line between numbered lines of both sides
C15_Witness ==
  /\ pc = "review"
  /\ \E f \in 1..Len(files) : \E h \in 1..Len(files[f].hunks) :
       LET ls == files[f].hunks[h].lines
       IN /\ Len(ls) = 3
          /\ ls[1].type \in {"ctx", "del"}
          /\ ls[2].type = "meta"
          /\ ls[3].type = "add"
          /\ ls[3].newLine = files[f].hunks[h].newStart + (IF ls[1].type = "ctx" THEN 1 ELSE 0)

\* the kind of a body line, by its first character
KindOf(l) ==
  IF l = <<>> THEN "meta"
  ELSE IF l[1] = "+" THEN "add"
  ELSE IF l[1] = "-" THEN "del"
  ELSE IF l[1] = SP THEN "ctx"
  ELSE "meta"

\* the path a file header names: what follows "+++ b/" on its last such line
PathOfHeader(hd) ==
  LET at == {i \in 1..Len(hd) : StartsWith(hd[i], S_Plus3B)}
  IN IF at = {} THEN <<>> ELSE Trim(SliceFrom(hd[Max(at)], 6))

\* the pending text read by its grammar: sections, headers, hunks and bodies
PendingFiles == ReadFiles(SplitLF(diffText))

\* C16: the lines between a hunk header and the next hunk header or "diff --git "
\* line are the lines of that hunk, in order, each of the kind its first character
\* gives; the header of the file is made of the lines before its first hunk only,
\* and its path is the one that header names.
C16_BodyLinesStayInHunk ==
  pc = "review" =>
    /\ Len(files) = Len(PendingFiles)
    /\ \A f \in 1..Len(files) :
         /\ files[f].header = PendingFiles[f].header
         /\ files[f].path = PathOfHeader(PendingFiles[f].header)
         /\ Len(files[f].hunks) = Len(PendingFiles[f].hunks)
         /\ \A h \in 1..Len(files[f].hunks) :
              LET ls == files[f].hunks[h].lines
                  body == PendingFiles[f].hunks[h].body
              IN /\ Len(ls) = Len(body)
                 /\ \A i \in 1..Len(ls) : ls[i].text = body[i] /\ ls[i].type = KindOf(body[i])

\* the same for the texts in which no line after a hunk header starts like a line
\* of the file header
NoHeaderLikeBodyLine ==
  \A f \in 1..Len(PendingFiles) : \A h \in 1..Len(PendingFiles[f].hunks) :
    \A i \in 1..Len(PendingFiles[f].hunks[h].body) :
      ~IsFileHeaderLine(PendingFiles[f].hunks[h].body[i])

C16_BodyLinesStayInHunkUnlessHeaderLike ==
  NoHeaderLikeBodyLine => C16_BodyLinesStayInHunk

\* the lines of L from its first "diff --git " line on
FromFirstDiffGit(L) ==
  LET gp == {i \in 1..Len(L) : IsDiffGitLine(L[i])}
  IN IF gp = {} THEN <<>> ELSE SubSeq(L, Min(gp), Len(L))

IsPrefixOf(a, b) == Len(a) <= Len(b) /\ SubSeq(b, 1, Len(a)) = a

\* C17: every text is parsed into a document; it has one file for each
\* "diff --git " line; what precedes the first such line changes nothing (the result
\* is that of the text without it, and is empty when there is no such line); and
\* the header of each file starts with the lines of its section that precede its
\* first hunk header, in their order.
C17_TotalAndGraceful ==
  pc = "review" =>
    /\ Len(files) = Len(PendingFiles)
    /\ FromFirstDiffGit(SplitLF(diffText)) = <<>> => files = <<>>
    /\ FromFirstDiffGit(SplitLF(diffText)) # <<>> =>
         files = parseUnifiedDiff(JoinLF(FromFirstDiffGit(SplitLF(diffText))))
    /\ \A f \in 1..Len(files) : IsPrefixOf(PendingFiles[f].header, files[f].header)

\* a text with a line before the first file, and a file whose header takes a line
\* that no header prefix matches before its first hunk
C17_Witness ==
  /\ pc = "review"
  /\ Len(src) >= 4
  /\ src[1] = L_Other
  /\ src[2] = L_DiffGit
  /\ src[3] = <<"+", "a">>
  /\ src[4] = L_Hunk
  /\ Len(files) = 1
  /\ files[1].header = <<L_DiffGit, <<"+", "a">> >>

\* C18: in a freshly parsed document every Add and Delete line is accepted and
\* the Context and Meta lines carry no acceptance flag.
C18_FreshlyParsedAccepted ==
  (pc = "review" /\ lastOp = "parse") =>
    \A f \in 1..Len(files) : \A h \in 1..Len(files[f].hunks) :
      \A i \in 1..Len(files[f].hunks[h].lines) :
        LET l == files[f].hunks[h].lines[i]
        IN /\ l.type \in {"add", "del"} => l.accepted = "true"
           /\ l.type \in {"ctx", "meta"} => l.accepted = "undefined"

\* a freshly parsed hunk with an Add, a Delete and a Context line
C18_Witness ==
  /\ pc = "review"
  /\ lastOp = "parse"
  /\ \E f \in 1..Len(files) : \E h \in 1..Len(files[f].hunks) :
       {files[f].hunks[h].lines[i].type : i \in 1..Len(files[f].hunks[h].lines)}
         = {"add", "del", "ctx"}

(***************************************************************************)
(* Claims about the handlers of the review, checked under Spec.            *)
(***************************************************************************)
\* line b is line a with, when it is an Add or Delete line, the flag `value`
SameLineWithFlag(a, b, value) ==
  IF a.type \in {"add", "del"}
  THEN b = [a EXCEPT !.accepted = value]
  ELSE b = a

\* document g is document f with the flag of every Add and Delete line set to `value`
AllSetTo(f, g, value) ==
  /\ Len(g) = Len(f)
  /\ \A i \in 1..Len(f) :
       /\ g[i].header = f[i].header
       /\ g[i].path = f[i].path
       /\ Len(g[i].hunks) = Len(f[i].hunks)
       /\ \A h \in 1..Len(f[i].hunks) :
            LET a == f[i].hunks[h]
                b == g[i].hunks[h]
            IN /\ b.header = a.header
               /\ b.oldStart = a.oldStart /\ b.oldLines = a.oldLines
               /\ b.newStart = a.newStart /\ b.newLines = a.newLines
               /\ Len(b.lines) = Len(a.lines)
               /\ \A l \in 1..Len(a.lines) : SameLineWithFlag(a.lines[l], b.lines[l], value)

\* C19: a step of approveAll (rejectAll) gives every Add and Delete line the flag
\* true (false), whatever the flags were, and changes nothing else of the document.
C19_SetAllFrame ==
  [][ /\ (pc' = "review" /\ lastOp' = "approveAll") => AllSetTo(files, files', "true")
      /\ (pc' = "review" /\ lastOp' = "rejectAll") => AllSetTo(files, files', "false") ]_vars

\* rejectAll has run on a document with a Context line and two changes
C19_Witness ==
  /\ pc = "review"
  /\ lastOp = "rejectAll"
  /\ \E f \in 1..Len(files) : \E h \in 1..Len(files[f].hunks) :
       LET ls == files[f].hunks[h].lines
       IN /\ \E i \in 1..Len(ls) : ls[i].type = "ctx"
          /\ \E i, j \in 1..Len(ls) :
               /\ i # j
               /\ ls[i].type = "add" /\ ls[i].accepted = "false"
               /\ ls[j].type = "del" /\ ls[j].accepted = "false"

\* the step changes the flag of one Add or Delete line and nothing else
OneFlagSet ==
  \E f \in 1..Len(files) : \E h \in 1..Len(files[f].hunks) :
    \E l \in 1..Len(files[f].hunks[h].lines) : \E v \in {"true", "false"} :
      /\ IsChange(files[f].hunks[h].lines[l])
      /\ files' = [files EXCEPT ![f].hunks[h].lines[l].accepted = v]

\* C20: a step of toggleLine either leaves the document as it is (the line is a
\* Context or Meta line, or has the flag already) or sets the flag of one Add or
\* Delete line and changes no other line, also when approveAll or rejectAll ran
\* before (the lines of the document are held by different objects).
C20_ToggleOneLine ==
  [][ (pc' = "review" /\ lastOp' = "toggleLine") => (files' = files \/ OneFlagSet) ]_vars

\* after rejectAll, one of two changes was approved again
C20_Witness ==
  /\ pc = "review"
  /\ lastOp = "toggleLine"
  /\ \E f \in 1..Len(files) : \E h \in 1..Len(files[f].hunks) :
       LET ls == files[f].hunks[h].lines
       IN \E i, j \in 1..Len(ls) :
            /\ i # j
            /\ objs[f][h][i][1] = 1
            /\ IsChange(ls[i]) /\ ls[i].accepted = "true"
            /\ IsChange(ls[j]) /\ ls[j].accepted = "false"
            /\ \E k \in 1..Len(ls) : ls[k].type = "ctx"

RunOnExistingFile ==
  /\ hunkRun # <<>>
  /\ InitialDisk[queue[RunFile].path].exists

\* C28: a hunk without old lines whose header names old line N puts the contents
\* of its Add lines right after line N of the file (N lines of the file as it is
\* when the hunk is applied come first, all of them when the file is shorter; the
\* block is at the top when N = 0), and every line of the file stays, in order.
C28_InsertAfterLineN ==
  RunOnExistingFile =>
    \A k \in 1..Len(hunkRunOf) :
      hunkRunOf[k].oldLines = 0 =>
        LET n == hunkRunOf[k].oldStart + hunkRun[k].offset
        IN hunkRun[k + 1].lines
             = Below(hunkRun[k].lines, n) \o BlockOf(hunkRunOf[k].lines)
               \o AtOrAfter(hunkRun[k].lines, n)

\* the texts a line of the other file may have in the replaced range
TwinTexts == { <<"b">>, <<"c">>, <<"x">> }

\* the files that are equal to ls outside the 0-based range [at, at + n)
TwinsOf(ls, at, n) ==
  { t \in [1..Len(ls) -> {ls[i] : i \in 1..Len(ls)} \cup TwinTexts] :
      \A i \in 1..Len(ls) :
        IF at < i /\ i <= at + n THEN t[i] \in TwinTexts \cup {ls[i]} ELSE t[i] = ls[i] }

\* the hunk with another text in each of its Delete lines
WithOtherDeletes(h) ==
  [h EXCEPT !.lines = [i \in 1..Len(h.lines) |->
     IF StartsWith(h.lines[i], <<"-">>) THEN <<"-", "x">> ELSE h.lines[i]]]

\* C30: every hunk of the file is applied whatever the file holds; the lines after
\* a hunk are those the same hunk gives on any file that differs only in the range
\* it replaces, and those the hunk gives with other texts in its Delete lines.
C30_PurelyPositional ==
  hunkRun # <<>> =>
    /\ Len(hunkRunOf) = Len(SrcHunksOf(queue[RunFile].path))
    /\ Len(hunkRun) = Len(hunkRunOf) + 1
    /\ \A k \in 1..Len(hunkRunOf) :
         LET h == hunkRunOf[k]
             st == hunkRun[k]
             at == h.oldStart - 1 + st.offset
         IN /\ \A t \in TwinsOf(st.lines, at, h.oldLines) :
                 ApplyHunk([st EXCEPT !.lines = t], h) = hunkRun[k + 1]
            /\ ApplyHunk(st, WithOtherDeletes(h)) = hunkRun[k + 1]

\* the same for the hunks whose position oldStart - 1 + offset is in the file or
\* at its end: for these the replaced range is the one the header gives
C30_PositionalAtValidPositions ==
  hunkRun # <<>> =>
    /\ Len(hunkRunOf) = Len(SrcHunksOf(queue[RunFile].path))
    /\ Len(hunkRun) = Len(hunkRunOf) + 1
    /\ \A k \in 1..Len(hunkRunOf) :
         LET h == hunkRunOf[k]
             st == hunkRun[k]
             at == h.oldStart - 1 + st.offset
         IN /\ at >= 0 =>
                 \A t \in TwinsOf(st.lines, at, h.oldLines) :
                   ApplyHunk([st EXCEPT !.lines = t], h) = hunkRun[k + 1]
            /\ ApplyHunk(st, WithOtherDeletes(h)) = hunkRun[k + 1]

\* a hunk with a Delete and a Context line was applied, and written, to a file
\* whose lines at that place are neither
C30_Witness ==
  /\ hunkRun # <<>>
  /\ result.message = "Patch applied (WorkspaceEdit)"
  /\ \E k \in 1..Len(hunkRunOf) :
       /\ hunkRunOf[k].oldLines = 2
       /\ hunkRunOf[k].oldStart = 1
       /\ \E i, j \in 1..Len(hunkRunOf[k].lines) :
            /\ hunkRunOf[k].lines[i] = <<"-", "b">>
            /\ hunkRunOf[k].lines[j] = <<SP, "c">>
       /\ hunkRun[k].lines = <<<<"p">>, <<"q">>, <<"r">>>>
       /\ hunkRun[k + 1].lines = <<<<"c">>, <<"r">>>>

\* the files, hunks and body lines parseUnifiedDiff gives, in the shape of the
\* result of parseDiff
AsApplyFiles(fs) ==
  [i \in 1..Len(fs) |->
     [path |-> fs[i].path,
      hunks |-> [h \in 1..Len(fs[i].hunks) |->
                   Hunk(fs[i].hunks[h].oldStart, fs[i].hunks[h].oldLines,
                        fs[i].hunks[h].newStart, fs[i].hunks[h].newLines,
                        [l \in 1..Len(fs[i].hunks[h].lines) |->
                           fs[i].hunks[h].lines[l].text])]]]

\* C27: on the text approveSelected rebuilt, parseDiff gives the files, in order,
\* with the paths, the hunks, their four header numbers and their body lines
\* (a carriage return at the end of a line included) that parseUnifiedDiff gives.
C27_ParsersAgreeOnRebuilt ==
  pc = "sent" => parseDiff(out) = AsApplyFiles(parseUnifiedDiff(out))

\* the same for the rebuilt texts without a carriage return in which every
\* section has its "+++ b/" line before its first hunk
C27_ParsersAgreeOnPlainSections ==
  (/\ pc = "sent"
   /\ \A i \in 1..Len(out) : out[i] # CR
   /\ \A i \in 1..Len(files) :
        \E k \in 1..Len(files[i].header) : StartsWith(files[i].header[k], S_Plus3B))
    => parseDiff(out) = AsApplyFiles(parseUnifiedDiff(out))

\* the sections of the text of the call, and the paths a section names in the
\* "+++ b/" lines of its header
ApplySections == ReadFiles(SplitCRLF(applyText))

NamedPaths(sec) ==
  {Trim(SliceFrom(sec.header[k], 6)) : k \in {j \in 1..Len(sec.header) :
                                                StartsWith(sec.header[j], S_Plus3B)}}

IsNamed(sec) == NamedPaths(sec) # {}

\* C29: the files the strategy in memory works on are, in order, the sections
\* whose header has a "+++ b/" line, each with the path of that line and the hunks
\* of that section; a section without such a line gives no file, and only files
\* named that way are written.
C29_HunksGoToNamedFile ==
  memEntered =>
    LET named == SelectSeq(ApplySections, IsNamed)
    IN /\ Len(queue) = Len(named)
       /\ \A k \in 1..Len(queue) :
            /\ queue[k].path \in NamedPaths(named[k])
            /\ Len(queue[k].hunks) = Len(named[k].hunks)
            /\ \A h \in 1..Len(queue[k].hunks) :
                 queue[k].hunks[h].lines = named[k].hunks[h].body
       /\ \A p \in DiskPaths :
            disk[p] # InitialDisk[p] => \E k \in 1..Len(named) : p \in NamedPaths(named[k])

\* the same for the texts in which no line after a hunk header starts with "+++ b/"
C29_HunksGoToNamedFileUnlessPathLikeBody ==
  (\A s \in 1..Len(ApplySections) : \A h \in 1..Len(ApplySections[s].hunks) :
     \A l \in 1..Len(ApplySections[s].hunks[h].body) :
       ~StartsWith(ApplySections[s].hunks[h].body[l], S_Plus3B))
    => C29_HunksGoToNamedFile

\* the working tree is as the session found it
TreeUntouched == disk = SessionDisk(src)

\* C23: a step of approve clears pending only when the server answered ok to the
\* request that carried diffToApply or applyPatch(diffToApply) resolved ok; a call
\* with no pending patch posts nothing and calls nothing; when the server and
\* applyPatch both fail, pending stays.
C23_ClearedOnlyWhenApplied ==
  [][ /\ (epc # "idle" /\ pending.has /\ ~pending'.has) =>
           /\ serverDiff = Sent(diffToApply)
           /\ \/ lastExt' \in {"Approved on server", "Approved (stream)"}
              \/ /\ lastExt' = "Applied"
                 /\ applyText = diffToApply
                 /\ result.ok
      /\ lastExt' = "No pending patch" =>
           /\ serverDiff' = serverDiff
           /\ apc' = apc /\ apc = "Idle"
           /\ disk' = disk /\ TreeUntouched
      /\ (epc = "approveLocal" /\ epc' = "idle" /\ ~result.ok) => pending' = pending
    ]_vars

\* approve ended with the patch applied by applyPatch in memory, and pending null
C23_Witness ==
  /\ lastExt = "Applied"
  /\ ~pending.has
  /\ result.message = "Patch applied (WorkspaceEdit)"
  /\ memWrites > 0
  /\ ~TreeUntouched

\* approve ended with the server and applyPatch both failed, pending is there
C23_WitnessRetained ==
  /\ lastExt = "Apply failed"
  /\ pending.has
  /\ serverDiff.sent

\* approve was called with no pending patch
C23_WitnessNoPending ==
  /\ lastExt = "No pending patch"
  /\ pc = "sent"

\* C24: when resetContext has returned after the ok of the server, pending is
\* null and the message list is empty.
C24_ResetClearsPendingAndMessages ==
  lastExt = "Context reset" => (~pending.has /\ messages = <<>>)

\* what resetContext does when the server answered ok: pending is null and the
\* message list has one message more, "Context reset"
C24_ResetClearsPendingOnly ==
  lastExt = "Context reset" =>
    /\ ~pending.has
    /\ Len(messages) >= 2
    /\ messages[Len(messages)] = "Context reset"

\* C25: while approve runs on the message of approveSelected, the diff it chose,
\* the diff it posted to the server and the diff it gave to applyPatch are the
\* diff the review rebuilt (the empty text when every change is rejected).
C25_ApproveAppliesTheSelection ==
  (epc # "idle" /\ diffOverride.given) =>
    /\ diffToApply = out
    /\ serverDiff = Sent(out)
    /\ apc # "Idle" => applyText = out

\* the same when the rebuilt diff is not the empty text
C25_ApproveAppliesNonEmptySelection ==
  (epc # "idle" /\ diffOverride.given /\ out # <<>>) =>
    /\ diffToApply = out
    /\ serverDiff = Sent(out)
    /\ apc # "Idle" => applyText = out

\* the lines a hunk of the document stands for, with its flags: the Context
\* lines, the Delete lines that are rejected and the Add lines that are not
RECURSIVE ReviewedBlock(_)
ReviewedBlock(ls) ==
  IF ls = <<>> THEN <<>>
  ELSE (IF \/ ls[1].type = "ctx"
           \/ ls[1].type = "del" /\ Rejected(ls[1])
           \/ ls[1].type = "add" /\ ~Rejected(ls[1])
        THEN <<Tail(ls[1].text)>> ELSE <<>>)
       \o ReviewedBlock(Tail(ls))

\* the file with the old lines of hunks k, k-1, .. 1 replaced by those lines
RECURSIVE ReviewedFile(_, _, _)
ReviewedFile(F, hs, k) ==
  IF k = 0 THEN F
  ELSE ReviewedFile(SubSeq(F, 1, hs[k].oldStart - 1) \o ReviewedBlock(hs[k].lines)
                      \o SubSeq(F, hs[k].oldStart + hs[k].oldLines, Len(F)),
                    hs, k - 1)

\* applyPatch wrote the rebuilt diff with the strategy in memory
RebuiltAppliedInMemory ==
  /\ apc = "Done"
  /\ result.ok
  /\ result.message = "Patch applied (WorkspaceEdit)"
  /\ applyText = out

\* C26: when the rebuilt diff has been applied in memory, the file is the old file
\* with, in each hunk, the accepted Delete lines removed and the accepted Add
\* lines put in; rejected Delete lines and Context lines are where they were.
C26_PartialAcceptanceApplies ==
  RebuiltAppliedInMemory =>
    disk[PathOf(1)].content = JoinLF(ReviewedFile(OldFileLines(src), files[1].hunks,
                                                  Len(files[1].hunks)))

\* the same when no line of the document is rejected
C26_FullAcceptanceApplies ==
  (RebuiltAppliedInMemory /\ \A h \in 1..Len(files[1].hunks) :
     \A l \in 1..Len(files[1].hunks[h].lines) : ~Rejected(files[1].hunks[h].lines[l]))
    => disk[PathOf(1)].content = JoinLF(ReviewedFile(OldFileLines(src), files[1].hunks,
                                                     Len(files[1].hunks)))

====
